---- MODULE Spec2Model ----
(***************************************************************************)
(* Model of src/main.cpp: the shader source splitter (parse_shader), the   *)
(* stage compiler (compile_shader), the program build (create_shaders)     *)
(* and the startup sequence and frame loop of main.                        *)
(*                                                                         *)
(* A line of text is a sequence of tokens, a text is a sequence of tokens  *)
(* in which "\n" is the newline character.  std::string::find is          *)
(* sub-sequence search.  The graphics library is modelled by its object    *)
(* tables (shader objects, program objects) and by the calls it receives.  *)
(***************************************************************************)
EXTENDS Integers, Sequences, FiniteSets, TLC

\* ------------------------------------------------------------------ bounds
\* longest shader file (in lines) read by the whole-program specification
MaxLines == 2
\* longest shader file (in lines) read by the splitter-only specification
MaxParseLines == 5

\* ------------------------------------------------------- program constants
kNone == -1
kVertex == 0
kFragment == 1
GL_VERTEX_SHADER == 35633
GL_FRAGMENT_SHADER == 35632
NumInstances == 10
VertexCount == 36

\* the lines a shader file is made of
LineSet ==
  { <<"#shader", "vertex">>,
    <<"#shader", "fragment">>,
    <<"#shader", "geometry">>,
    <<"#shader", "vertex", "fragment">>,
    <<"void", "main">>,
    <<"vertex">> }

Files(n) == UNION { [1..k -> LineSet] : k \in 0..n }

\* the value of a local variable that is not in scope
NoStream == [is_open |-> FALSE, lines |-> <<>>, pos |-> 0]
EmptySS == [k \in {kVertex, kFragment} |-> <<>>]
NoSource == [vertex_source |-> <<>>, fragment_source |-> <<>>]

\* what an out-of-bounds write may leave in a stage buffer
Garbage == <<"?">>

VARIABLES
  pc,              \* position of main (and of the function it is inside)
  ndebug,          \* TRUE when the build defines NDEBUG (assert compiled out)
  exit_code,       \* return value of main once pc = "exit"
  stream,          \* parse_shader: the std::ifstream
  type,            \* parse_shader: ShaderType type
  ss,              \* parse_shader: std::stringstream ss[2]
  slots,           \* parse_shader: values of (int)type used to index ss
  source,          \* main: ShaderProgramSource source
  next_name,       \* GL: next object name handed out
  gl_shaders,      \* GL: shader objects ever created, by name
  gl_programs,     \* GL: program objects ever created, by name
  program, vs, fs, \* create_shaders: locals
  shader_program,  \* main: unsigned int shader_program
  use_program_calls, \* GL: arguments of the glUseProgram calls made
  log,             \* lines written to std::cout
  tex_uploads,     \* GL: number of glTexImage2D calls
  sampler_set,     \* GL: glUniform1i("texture1") has been called
  should_close,    \* GLFW: the window's should-close flag
  i,               \* main: instance loop counter
  frame,           \* calls made by the current iteration of the frame loop
  delete_program_calls  \* arguments of the glDeleteProgram calls made

vars == << pc, ndebug, exit_code, stream, type, ss, slots, source, next_name,
           gl_shaders, gl_programs, program, vs, fs, shader_program,
           use_program_calls, log, tex_uploads, sampler_set, should_close, i,
           frame, delete_program_calls >>

parseVars == << stream, type, ss, slots >>
glObjVars == << next_name, gl_shaders, gl_programs, program, vs, fs >>
loopVars == << should_close, i, frame, delete_program_calls >>
texVars == << tex_uploads, sampler_set >>

\* ------------------------------------------------------------ parse_shader

\* std::string::find(pat) != npos
find(line, pat) ==
  \E k \in 0..(Len(line) - Len(pat)) :
     SubSeq(line, k + 1, k + Len(pat)) = pat

\* lines 30-34: the selected stage after reading a marker line
NextType(t, line) ==
  IF find(line, <<"vertex">>) THEN kVertex
  ELSE IF find(line, <<"fragment">>) THEN kFragment
  ELSE t

\* line 36 without the newline: ss[(int)type] << line
AppendLine_no_newline(buf, t, line) ==
  [buf EXCEPT ![t] = @ \o line]

\* line 36: ss[(int)type] << line << '\n', for a valid slot
AppendLine(buf, t, line) ==
  [buf EXCEPT ![t] = @ \o line \o <<"\n">>]

\* line 21: std::ifstream stream(file_path)
ParseOpen(maxLen) ==
  /\ pc = "parse_shader"
  /\ \E opened \in BOOLEAN, f \in Files(maxLen) :
       stream' = [is_open |-> opened,
                  lines |-> IF opened THEN f ELSE <<>>,
                  pos |-> 0]
  /\ type' = kNone
  /\ ss' = EmptySS
  /\ slots' = {}
  /\ pc' = "parse_loop"
  /\ UNCHANGED << ndebug, exit_code, source, glObjVars, shader_program,
                  use_program_calls, log, texVars, loopVars >>

\* lines 29-38: one iteration of while (getline(stream, line)) whose body
\* line is appended to a valid slot, or whose line is a marker
ParseLine ==
  /\ pc = "parse_loop"
  /\ stream.is_open
  /\ stream.pos < Len(stream.lines)
  /\ LET line == stream.lines[stream.pos + 1] IN
       /\ find(line, <<"#shader">>) \/ type # kNone
       /\ IF find(line, <<"#shader">>)
            THEN /\ type' = NextType(type, line)
                 /\ UNCHANGED << ss, slots >>
            ELSE /\ ss' = AppendLine(ss, type, line)
                 /\ slots' = slots \cup {type}
                 /\ type' = type
  /\ stream' = [stream EXCEPT !.pos = @ + 1]
  /\ UNCHANGED << pc, ndebug, exit_code, source, glObjVars, shader_program,
                  use_program_calls, log, texVars, loopVars >>

\* line 36 with type == kNone: ss[-1] << line is an out-of-bounds access.
\* The build may crash, may write where nothing reads, or may overwrite one
\* of the two stage buffers.
ParseLineOutOfBounds ==
  /\ pc = "parse_loop"
  /\ stream.is_open
  /\ stream.pos < Len(stream.lines)
  /\ ~find(stream.lines[stream.pos + 1], <<"#shader">>)
  /\ type = kNone
  /\ slots' = slots \cup {kNone}
  /\ \/ /\ pc' = "crashed"
        /\ UNCHANGED << ss, stream >>
     \/ /\ pc' = pc
        /\ stream' = [stream EXCEPT !.pos = @ + 1]
        /\ \/ ss' = ss
           \/ \E k \in {kVertex, kFragment} : ss' = [ss EXCEPT ![k] = Garbage]
  /\ UNCHANGED << type, ndebug, exit_code, source, glObjVars, shader_program,
                  use_program_calls, log, texVars, loopVars >>

\* line 29 failing (end of file, or a stream that never opened) and
\* line 40: return {ss[0].str(), ss[1].str()}; main line 159 stores it
ParseReturn ==
  /\ pc = "parse_loop"
  /\ ~stream.is_open \/ stream.pos >= Len(stream.lines)
  /\ source' = [vertex_source |-> ss[kVertex],
                fragment_source |-> ss[kFragment]]
  /\ stream' = NoStream
  /\ ss' = EmptySS
  /\ type' = kNone
  /\ pc' = "create_shaders"
  /\ UNCHANGED << slots, ndebug, exit_code, glObjVars, shader_program,
                  use_program_calls, log, texVars, loopVars >>

\* ---------------------------------------------------------- GL object tables

NewShader(t, src, status) ==
  [type |-> t, source |-> src, compile_status |-> status, deletes |-> 0]

NewProgram ==
  [attached |-> {}, link_status |-> FALSE, validate_status |-> FALSE,
   deleted |-> FALSE]

\* glDeleteShader(name): the name 0 is silently ignored
glDeleteShader(shaders, name) ==
  IF name \in DOMAIN shaders
    THEN [shaders EXCEPT ![name].deletes = @ + 1]
    ELSE shaders

\* line 59: the stage named in the failure message
StageName(t) == IF t = GL_VERTEX_SHADER THEN "vertex" ELSE "fragment"

\* ---------------------------------------------------------- compile_shader

\* lines 43-68 without line 63: the failed shader object is not released
compile_shader_leak(t, src, name, status, shaders, out) ==
  LET created == shaders @@ (name :> NewShader(t, src, status)) IN
  IF ~status
    THEN [ret |-> 0,
          shaders |-> created,
          log |-> out \o << <<"Failed to compile!!", StageName(t), "shader">>,
                            <<"shader info log">> >>]
    ELSE [ret |-> name, shaders |-> created, log |-> out]

\* lines 43-68.  name is the value of glCreateShader, status the
\* GL_COMPILE_STATUS the driver reports; the result is the return value,
\* the shader table and std::cout after the call.
compile_shader(t, src, name, status, shaders, out) ==
  LET created == shaders @@ (name :> NewShader(t, src, status)) IN
  IF ~status
    THEN [ret |-> 0,
          shaders |-> glDeleteShader(created, name),
          log |-> out \o << <<"Failed to compile!!", StageName(t), "shader">>,
                            <<"shader info log">> >>]
    ELSE [ret |-> name, shaders |-> created, log |-> out]

\* ---------------------------------------------------------- create_shaders

\* line 72: unsigned int program = glCreateProgram()
CreateProgram ==
  /\ pc = "create_shaders"
  /\ program' = next_name
  /\ gl_programs' = gl_programs @@ (next_name :> NewProgram)
  /\ next_name' = next_name + 1
  /\ pc' = "compile_vs"
  /\ UNCHANGED << ndebug, exit_code, parseVars, source, gl_shaders, vs, fs,
                  shader_program, use_program_calls, log, texVars, loopVars >>

\* line 73: vs = compile_shader(GL_VERTEX_SHADER, vertex_shader)
CompileVertex ==
  /\ pc = "compile_vs"
  /\ \E status \in BOOLEAN :
       LET r == compile_shader(GL_VERTEX_SHADER, source.vertex_source,
                               next_name, status, gl_shaders, log) IN
         /\ vs' = r.ret
         /\ gl_shaders' = r.shaders
         /\ log' = r.log
  /\ next_name' = next_name + 1
  /\ pc' = "assert_vs"
  /\ UNCHANGED << ndebug, exit_code, parseVars, source, gl_programs, program,
                  fs, shader_program, use_program_calls, texVars, loopVars >>

\* lines 74 and 76: assert(handle), compiled out when NDEBUG is defined
assert_handle(handle, after) ==
  IF ndebug \/ handle # 0 THEN after ELSE "aborted"

\* line 74: assert(vs)
AssertVertex ==
  /\ pc = "assert_vs"
  /\ pc' = assert_handle(vs, "compile_fs")
  /\ UNCHANGED << ndebug, exit_code, parseVars, source, glObjVars,
                  shader_program, use_program_calls, log, texVars, loopVars >>

\* line 75: fs = compile_shader(GL_FRAGMENT_SHADER, fragment_shader)
CompileFragment ==
  /\ pc = "compile_fs"
  /\ \E status \in BOOLEAN :
       LET r == compile_shader(GL_FRAGMENT_SHADER, source.fragment_source,
                               next_name, status, gl_shaders, log) IN
         /\ fs' = r.ret
         /\ gl_shaders' = r.shaders
         /\ log' = r.log
  /\ next_name' = next_name + 1
  /\ pc' = "assert_fs"
  /\ UNCHANGED << ndebug, exit_code, parseVars, source, gl_programs, program,
                  vs, shader_program, use_program_calls, texVars, loopVars >>

\* line 76: assert(fs)
AssertFragment ==
  /\ pc = "assert_fs"
  /\ pc' = assert_handle(fs, "link")
  /\ UNCHANGED << ndebug, exit_code, parseVars, source, glObjVars,
                  shader_program, use_program_calls, log, texVars, loopVars >>

\* lines 78-81: glAttachShader twice (the name 0 is rejected and nothing is
\* attached), glLinkProgram, glValidateProgram.  The driver decides the two
\* statuses; a program that did not link does not validate.
LinkProgram ==
  /\ pc = "link"
  /\ \E linked \in BOOLEAN, valid \in BOOLEAN :
       /\ valid => linked
       /\ gl_programs' =
            [gl_programs EXCEPT ![program] =
               [@ EXCEPT !.attached = {vs, fs} \ {0},
                         !.link_status = linked,
                         !.validate_status = valid]]
  /\ pc' = "check_link"
  /\ UNCHANGED << ndebug, exit_code, parseVars, source, next_name,
                  gl_shaders, program, vs, fs, shader_program,
                  use_program_calls, log, texVars, loopVars >>

\* lines 83-98: the value create_shaders returns for the link status it
\* reads, with the shader table and std::cout it leaves behind
create_shaders_return(success, prog, v, f, shaders, out) ==
  IF ~success
    THEN [ret |-> 0, shaders |-> shaders,
          log |-> Append(out, <<"program info log">>)]
    ELSE [ret |-> prog,
          shaders |-> glDeleteShader(glDeleteShader(shaders, v), f),
          log |-> out]

\* lines 83-98 and main lines 160-161: shader_program = create_shaders(...)
CheckLink ==
  /\ pc = "check_link"
  /\ LET r == create_shaders_return(gl_programs[program].link_status,
                                    program, vs, fs, gl_shaders, log) IN
       /\ shader_program' = r.ret
       /\ gl_shaders' = r.shaders
       /\ log' = r.log
  /\ program' = 0
  /\ vs' = 0
  /\ fs' = 0
  /\ pc' = "use_program"
  /\ UNCHANGED << ndebug, exit_code, parseVars, source, next_name,
                  gl_programs, use_program_calls, texVars, loopVars >>

\* -------------------------------------------------------------------- main

\* lines 118-156: window and context creation, loader initialisation
MainInit ==
  /\ pc = "init"
  /\ \E window_ok \in BOOLEAN, glad_ok \in BOOLEAN :
       IF ~window_ok
         THEN /\ log' = Append(log, <<"Failed to create GLFW window">>)
              /\ exit_code' = -1
              /\ pc' = "exit"
         ELSE IF ~glad_ok
           THEN /\ log' = Append(log, <<"Failed to initialize GLAD">>)
                /\ exit_code' = -1
                /\ pc' = "exit"
           ELSE /\ pc' = "parse_shader"
                /\ UNCHANGED << log, exit_code >>
  /\ UNCHANGED << ndebug, parseVars, source, glObjVars, shader_program,
                  use_program_calls, texVars, loopVars >>

\* line 163: glUseProgram(shader_program)
UseProgram ==
  /\ pc = "use_program"
  /\ use_program_calls' = Append(use_program_calls, shader_program)
  /\ pc' = "setup_geometry"
  /\ UNCHANGED << ndebug, exit_code, parseVars, source, glObjVars,
                  shader_program, log, texVars, loopVars >>

\* lines 199-216: vertex array, vertex buffer and attribute layout
SetupGeometry ==
  /\ pc = "setup_geometry"
  /\ pc' = "load_texture"
  /\ UNCHANGED << ndebug, exit_code, parseVars, source, glObjVars,
                  shader_program, use_program_calls, log, texVars, loopVars >>

\* lines 241-247 with a load failure treated as fatal
texture_loaded_fatal(loaded, uploads, out) ==
  IF loaded
    THEN [uploads |-> uploads + 1, log |-> out, pc |-> "set_sampler"]
    ELSE [uploads |-> uploads,
          log |-> Append(out, <<"Failed to load texture">>),
          pc |-> "exit"]

\* lines 241-247: what main does with the pointer stbi_load returned
\* (loaded is data != nullptr): the glTexImage2D count, std::cout, next step
texture_loaded(loaded, uploads, out) ==
  IF loaded
    THEN [uploads |-> uploads + 1, log |-> out, pc |-> "set_sampler"]
    ELSE [uploads |-> uploads,
          log |-> Append(out, <<"Failed to load texture">>),
          pc |-> "set_sampler"]

\* lines 220-248: create the texture object and load the image
LoadTexture ==
  /\ pc = "load_texture"
  /\ \E loaded \in BOOLEAN :
       LET r == texture_loaded(loaded, tex_uploads, log) IN
         /\ tex_uploads' = r.uploads
         /\ log' = r.log
         /\ pc' = r.pc
  /\ UNCHANGED << ndebug, exit_code, parseVars, source, glObjVars,
                  shader_program, use_program_calls, sampler_set, loopVars >>

\* line 253: glUniform1i(glGetUniformLocation(shader_program, "texture1"), 0)
SetSampler ==
  /\ pc = "set_sampler"
  /\ sampler_set' = TRUE
  /\ pc' = "loop_head"
  /\ UNCHANGED << ndebug, exit_code, parseVars, source, glObjVars,
                  shader_program, use_program_calls, log, tex_uploads,
                  loopVars >>

\* ------------------------------------------------------------- frame loop

\* a call made by the frame loop: the function, the object or uniform it
\* names, and its numeric arguments
Call(op, name, arg) == [op |-> op, name |-> name, arg |-> arg]

\* line 255 with a condition that never reads the flag
loop_ignores_flag(flag) == TRUE

\* line 255: the loop condition !glfwWindowShouldClose(window)
loop_continues(flag) == ~flag

\* line 255: while (!glfwWindowShouldClose(window))
LoopHead ==
  /\ pc = "loop_head"
  /\ IF loop_continues(should_close)
       THEN /\ pc' = "process_input"
            /\ frame' = <<>>
       ELSE /\ pc' = "delete_program"
            /\ frame' = frame
  /\ UNCHANGED << ndebug, exit_code, parseVars, source, glObjVars,
                  shader_program, use_program_calls, log, texVars,
                  should_close, i, delete_program_calls >>

\* lines 105-108: the flag after process_input, escape being the key state
process_input(escape, flag) == IF escape THEN TRUE ELSE flag

\* line 258: process_input(window)
ProcessInput ==
  /\ pc = "process_input"
  /\ \E escape \in BOOLEAN :
       /\ should_close' = process_input(escape, should_close)
       /\ frame' = Append(frame, Call("process_input", "escape",
                                      << IF escape THEN 1 ELSE 0 >>))
  /\ pc' = "clear"
  /\ UNCHANGED << ndebug, exit_code, parseVars, source, glObjVars,
                  shader_program, use_program_calls, log, texVars, i,
                  delete_program_calls >>

\* line 262: glClear(GL_COLOR_BUFFER_BIT | GL_DEPTH_BUFFER_BIT)
Clear ==
  /\ pc = "clear"
  /\ frame' = Append(frame, Call("glClear", "color|depth", << >>))
  /\ pc' = "bind_texture"
  /\ UNCHANGED << ndebug, exit_code, parseVars, source, glObjVars,
                  shader_program, use_program_calls, log, texVars,
                  should_close, i, delete_program_calls >>

\* lines 265-266: glActiveTexture(GL_TEXTURE0), glBindTexture(texture1)
BindTexture ==
  /\ pc = "bind_texture"
  /\ frame' = frame \o << Call("glActiveTexture", "GL_TEXTURE0", << >>),
                          Call("glBindTexture", "texture1", << >>) >>
  /\ pc' = "push_view"
  /\ UNCHANGED << ndebug, exit_code, parseVars, source, glObjVars,
                  shader_program, use_program_calls, log, texVars,
                  should_close, i, delete_program_calls >>

\* lines 290-303: the orbiting view matrix, pushed as "view"
PushView ==
  /\ pc = "push_view"
  /\ frame' = Append(frame, Call("glUniformMatrix4fv", "view", << >>))
  /\ pc' = "push_projection"
  /\ UNCHANGED << ndebug, exit_code, parseVars, source, glObjVars,
                  shader_program, use_program_calls, log, texVars,
                  should_close, i, delete_program_calls >>

\* lines 297-306: the perspective matrix, pushed as "projection"
PushProjection ==
  /\ pc = "push_projection"
  /\ frame' = Append(frame, Call("glUniformMatrix4fv", "projection", << >>))
  /\ pc' = "bind_vertex_array"
  /\ UNCHANGED << ndebug, exit_code, parseVars, source, glObjVars,
                  shader_program, use_program_calls, log, texVars,
                  should_close, i, delete_program_calls >>

\* line 311: the step after the test i < 10
for_instances(k) == IF k < NumInstances THEN "push_model" ELSE "swap_buffers"

\* lines 310-311: glBindVertexArray(VAO) and the loop initialisation i = 0
BindVertexArray ==
  /\ pc = "bind_vertex_array"
  /\ frame' = Append(frame, Call("glBindVertexArray", "VAO", << >>))
  /\ i' = 0
  /\ pc' = for_instances(0)
  /\ UNCHANGED << ndebug, exit_code, parseVars, source, glObjVars,
                  shader_program, use_program_calls, log, texVars,
                  should_close, delete_program_calls >>

\* lines 192-197, coordinates in tenths
cubePositions ==
  << <<0, 0, 0>>,       <<20, 50, -150>>,
     <<-15, -22, -25>>, <<-38, -20, -123>>,
     <<24, -4, -35>>,   <<-17, 30, -75>>,
     <<13, -20, -25>>,  <<15, 20, -25>>,
     <<15, 2, -15>>,    <<-13, 10, -15>> >>

\* lines 312-316 with the matrix of instance 0 reused for every instance
model_matrix_stale(k) ==
  cubePositions[1] \o << 0 >>

\* lines 312-316: the model matrix of instance k, as the translation and
\* the rotation (degrees about (1, 0.3, 0.5)) applied to the identity:
\* << x, y, z, angle >>
model_matrix(k) ==
  cubePositions[k + 1] \o << 20 * k >>

\* lines 312-318: compute and push instance i's "model" uniform
PushModel ==
  /\ pc = "push_model"
  /\ frame' = Append(frame, Call("glUniformMatrix4fv", "model",
                                 model_matrix(i)))
  /\ pc' = "draw"
  /\ UNCHANGED << ndebug, exit_code, parseVars, source, glObjVars,
                  shader_program, use_program_calls, log, texVars,
                  should_close, i, delete_program_calls >>

\* line 320 and the i++ of line 311: glDrawArrays(GL_TRIANGLES, 0, 36)
Draw ==
  /\ pc = "draw"
  /\ frame' = Append(frame, Call("glDrawArrays", "GL_TRIANGLES", << 0, VertexCount >>))
  /\ i' = i + 1
  /\ pc' = for_instances(i + 1)
  /\ UNCHANGED << ndebug, exit_code, parseVars, source, glObjVars,
                  shader_program, use_program_calls, log, texVars,
                  should_close, delete_program_calls >>

\* line 325: glfwSwapBuffers(window)
SwapBuffers ==
  /\ pc = "swap_buffers"
  /\ frame' = Append(frame, Call("glfwSwapBuffers", "window", << >>))
  /\ pc' = "poll_events"
  /\ UNCHANGED << ndebug, exit_code, parseVars, source, glObjVars,
                  shader_program, use_program_calls, log, texVars,
                  should_close, i, delete_program_calls >>

\* line 326: glfwPollEvents(); a close request sets the flag
PollEvents ==
  /\ pc = "poll_events"
  /\ \E close_requested \in BOOLEAN :
       should_close' = (should_close \/ close_requested)
  /\ frame' = Append(frame, Call("glfwPollEvents", "window", << >>))
  /\ pc' = "loop_head"
  /\ UNCHANGED << ndebug, exit_code, parseVars, source, glObjVars,
                  shader_program, use_program_calls, log, texVars, i,
                  delete_program_calls >>

\* glDeleteProgram(name): the name 0 is silently ignored
glDeleteProgram(programs, name) ==
  IF name \in DOMAIN programs
    THEN [programs EXCEPT ![name].deleted = TRUE]
    ELSE programs

\* line 329: glDeleteProgram(shader_program)
DeleteProgram ==
  /\ pc = "delete_program"
  /\ delete_program_calls' = Append(delete_program_calls, shader_program)
  /\ gl_programs' = glDeleteProgram(gl_programs, shader_program)
  /\ pc' = "terminate"
  /\ UNCHANGED << ndebug, exit_code, parseVars, source, next_name,
                  gl_shaders, program, vs, fs, shader_program,
                  use_program_calls, log, texVars, should_close, i, frame >>

\* lines 331-334: glfwDestroyWindow, glfwTerminate, return 0
Terminate ==
  /\ pc = "terminate"
  /\ exit_code' = 0
  /\ pc' = "exit"
  /\ UNCHANGED << ndebug, parseVars, source, glObjVars, shader_program,
                  use_program_calls, log, texVars, loopVars >>

\* ---------------------------------------------------------- specifications

Init ==
  /\ pc = "init"
  /\ ndebug \in BOOLEAN
  /\ exit_code = 0
  /\ stream = NoStream
  /\ type = kNone
  /\ ss = EmptySS
  /\ slots = {}
  /\ source = NoSource
  /\ next_name = 1
  /\ gl_shaders = << >>
  /\ gl_programs = << >>
  /\ program = 0
  /\ vs = 0
  /\ fs = 0
  /\ shader_program = 0
  /\ use_program_calls = << >>
  /\ log = << >>
  /\ tex_uploads = 0
  /\ sampler_set = FALSE
  /\ should_close = FALSE
  /\ i = 0
  /\ frame = << >>
  /\ delete_program_calls = << >>

Next ==
  \/ MainInit
  \/ ParseOpen(MaxLines)
  \/ ParseLine
  \/ ParseLineOutOfBounds
  \/ ParseReturn
  \/ CreateProgram
  \/ CompileVertex
  \/ AssertVertex
  \/ CompileFragment
  \/ AssertFragment
  \/ LinkProgram
  \/ CheckLink
  \/ UseProgram
  \/ SetupGeometry
  \/ LoadTexture
  \/ SetSampler
  \/ LoopHead
  \/ ProcessInput
  \/ Clear
  \/ BindTexture
  \/ PushView
  \/ PushProjection
  \/ BindVertexArray
  \/ PushModel
  \/ Draw
  \/ SwapBuffers
  \/ PollEvents
  \/ DeleteProgram
  \/ Terminate

Spec == Init /\ [][Next]_vars

\* main is the only thread: it keeps running until it returns or is killed
FairSpec == Spec /\ WF_vars(Next)

\* the splitter alone, called on longer files
InitParse ==
  /\ pc = "parse_shader"
  /\ ndebug \in BOOLEAN
  /\ exit_code = 0
  /\ stream = NoStream
  /\ type = kNone
  /\ ss = EmptySS
  /\ slots = {}
  /\ source = NoSource
  /\ next_name = 1
  /\ gl_shaders = << >>
  /\ gl_programs = << >>
  /\ program = 0
  /\ vs = 0
  /\ fs = 0
  /\ shader_program = 0
  /\ use_program_calls = << >>
  /\ log = << >>
  /\ tex_uploads = 0
  /\ sampler_set = FALSE
  /\ should_close = FALSE
  /\ i = 0
  /\ frame = << >>
  /\ delete_program_calls = << >>

NextParse ==
  \/ ParseOpen(MaxParseLines)
  \/ ParseLine
  \/ ParseLineOutOfBounds
  \/ ParseReturn

SpecParse == InitParse /\ [][NextParse]_vars

\* ------------------------------------------------------------------ claims

IsMarker(line) == find(line, <<"#shader">>)

\* the stage a marker line names, kNone when it names neither
MarkerStage(line) ==
  IF find(line, <<"vertex">>) THEN kVertex
  ELSE IF find(line, <<"fragment">>) THEN kFragment
  ELSE kNone

\* the stage selected by the most recent stage-selecting marker before line k
Owner(lines, k) ==
  LET sel == { j \in 1..(k - 1) :
                 IsMarker(lines[j]) /\ MarkerStage(lines[j]) # kNone } IN
  IF sel = {} THEN kNone
  ELSE MarkerStage(lines[CHOOSE j \in sel : \A m \in sel : m <= j])

RECURSIVE StageText(_, _, _)
\* line + "\n" over the body lines among the first k that belong to stage
StageText(lines, stage, k) ==
  IF k = 0 THEN << >>
  ELSE StageText(lines, stage, k - 1) \o
       (IF ~IsMarker(lines[k]) /\ Owner(lines, k) = stage
          THEN lines[k] \o <<"\n">>
          ELSE << >>)

WellFormed(lines) ==
  /\ Len(lines) >= 1
  /\ IsMarker(lines[1])
  /\ MarkerStage(lines[1]) # kNone

\* C1: for a file whose first line is a stage-selecting marker, the value
\* parse_shader returns holds, for each stage, exactly line + "\n" over the
\* body lines owned by that stage, in file order; marker lines are never
\* appended and a marker naming neither stage leaves the selection unchanged.
C1_SplitterOutput ==
  [][ (pc = "parse_loop" /\ pc' = "create_shaders" /\ stream.is_open
         /\ WellFormed(stream.lines))
      => /\ source'.vertex_source =
              StageText(stream.lines, kVertex, Len(stream.lines))
         /\ source'.fragment_source =
              StageText(stream.lines, kFragment, Len(stream.lines)) ]_vars

\* a well-formed file has been read to its end: both stages received text
\* and a body line followed a marker that names neither stage
C1_Witness ==
  /\ pc = "parse_loop"
  /\ stream.is_open
  /\ WellFormed(stream.lines)
  /\ stream.pos = Len(stream.lines)
  /\ ss[kVertex] # << >>
  /\ ss[kFragment] # << >>
  /\ \E j \in 1..(Len(stream.lines) - 1) :
       /\ IsMarker(stream.lines[j])
       /\ MarkerStage(stream.lines[j]) = kNone
       /\ ~IsMarker(stream.lines[j + 1])

\* C2: a body line read before any stage-selecting marker makes the splitter
\* fail; the index used to append to a stage buffer is never the "none"
\* sentinel.
C2_NeverIndexNone ==
  kNone \notin slots

BuildPcs ==
  { "init", "parse_shader", "parse_loop", "crashed", "create_shaders",
    "compile_vs", "assert_vs", "compile_fs", "assert_fs", "link",
    "check_link", "aborted" }

\* create_shaders has returned to main
BuildReturned == pc \notin BuildPcs /\ gl_programs # << >>

StageCompiled(t) ==
  \E n \in DOMAIN gl_shaders :
     gl_shaders[n].type = t /\ gl_shaders[n].compile_status

\* C3: the handle create_shaders returns is non-zero only if the vertex
\* stage compiled, the fragment stage compiled, the program linked and
\* validation succeeded.
C3_HandleValidOnlyIfAllSucceeded ==
  (BuildReturned /\ shader_program # 0)
    => /\ StageCompiled(GL_VERTEX_SHADER)
       /\ StageCompiled(GL_FRAGMENT_SHADER)
       /\ gl_programs[shader_program].link_status
       /\ gl_programs[shader_program].validate_status

CompileFailed ==
  \E n \in DOMAIN gl_shaders : ~gl_shaders[n].compile_status

LinkFailed ==
  /\ pc \notin { "compile_vs", "assert_vs", "compile_fs", "assert_fs", "link" }
  /\ \E n \in DOMAIN gl_programs : ~gl_programs[n].link_status

FramePcs ==
  { "process_input", "clear", "bind_texture", "push_view", "push_projection",
    "bind_vertex_array", "push_model", "draw", "swap_buffers", "poll_events" }

\* C4: once a stage compile or the link has failed, no later step binds the
\* program, pushes a uniform, enters the frame loop or draws.
C4_FailedBuildIsTerminal ==
  (CompileFailed \/ LinkFailed)
    => /\ use_program_calls = << >>
       /\ ~sampler_set
       /\ frame = << >>
       /\ pc \notin FramePcs \cup { "loop_head" }

\* what compile_shader left behind when it returned handle for a stage
CompileOutcome(handle, t, stage_name) ==
  LET obj == gl_shaders[next_name - 1] IN
  /\ obj.type = t
  /\ IF obj.compile_status
       THEN /\ handle = next_name - 1
            /\ handle # 0
            /\ obj.deletes = 0
       ELSE /\ handle = 0
            /\ obj.deletes = 1
            /\ Len(log) >= 2
            /\ log[Len(log) - 1] = <<"Failed to compile!!", stage_name, "shader">>

\* C5: when compilation fails compile_shader returns 0, the message names
\* the stage being compiled and the shader object has been released; when it
\* succeeds compile_shader returns the non-zero name of a live shader object.
C5_CompileShaderResult ==
  /\ pc = "assert_vs" => CompileOutcome(vs, GL_VERTEX_SHADER, "vertex")
  /\ pc = "assert_fs" => CompileOutcome(fs, GL_FRAGMENT_SHADER, "fragment")

\* the fragment stage has just failed to compile after the vertex stage
\* compiled
C5_Witness ==
  /\ pc = "assert_fs"
  /\ fs = 0
  /\ vs # 0
  /\ ~gl_shaders[next_name - 1].compile_status

\* C6: every stage handle returned to create_shaders has been released
\* exactly once by the time create_shaders returns.
C6_StagesReleasedOnce ==
  BuildReturned
    => \A n \in DOMAIN gl_shaders :
          gl_shaders[n].compile_status => gl_shaders[n].deletes = 1

\* C7: when the file cannot be opened parse_shader does not return a
\* ShaderSource that goes on to the stage compiler.
C7_UnopenableFileFails ==
  [][ (pc = "parse_loop" /\ ~stream.is_open) => pc' # "create_shaders" ]_vars

RECURSIVE InstanceCalls(_)
\* the model push and the draw call of instances 0 .. k-1, in order
InstanceCalls(k) ==
  IF k = 0 THEN << >>
  ELSE InstanceCalls(k - 1) \o
       << Call("glUniformMatrix4fv", "model",
               cubePositions[k] \o << 20 * (k - 1) >>),
          Call("glDrawArrays", "GL_TRIANGLES", << 0, 36 >>) >>

\* the steps of one iteration, in the order the frame loop is to make them
ExpectedSteps ==
  << Call("process_input", "escape", << 0 >>),
     Call("glClear", "color|depth", << >>),
     Call("glBindTexture", "texture1", << >>),
     Call("glUniformMatrix4fv", "view", << >>),
     Call("glUniformMatrix4fv", "projection", << >>) >>
  \o InstanceCalls(10)
  \o << Call("glfwSwapBuffers", "window", << >>),
        Call("glfwPollEvents", "window", << >>) >>

IsStep(c) == c.op \notin { "glActiveTexture", "glBindVertexArray" }

\* the steps among the calls of an iteration, the key state left out
StepsOf(calls) ==
  LET steps == SelectSeq(calls, IsStep) IN
  [k \in 1..Len(steps) |->
     IF steps[k].op = "process_input"
       THEN [steps[k] EXCEPT !.arg = << 0 >>]
       ELSE steps[k]]

Count(calls, op) == Cardinality({ k \in 1..Len(calls) : calls[k].op = op })

\* every step of an iteration has been made
IterationComplete(calls) ==
  /\ Count(calls, "process_input") = 1
  /\ Count(calls, "glClear") = 1
  /\ Count(calls, "glBindTexture") = 1
  /\ Count(calls, "glUniformMatrix4fv") = 12
  /\ Count(calls, "glDrawArrays") = 10
  /\ Count(calls, "glfwSwapBuffers") = 1
  /\ Count(calls, "glfwPollEvents") = 1

\* C8: the frame loop leaves only at its loop-head check, and at the first
\* check that sees the should-close flag; an iteration that was entered runs
\* all of its steps even when the exit key set the flag in its input check;
\* once the flag is set the loop eventually exits and glDeleteProgram is
\* called exactly once on the program, after which nothing is drawn.
C8_LoopExitsOnlyAtHead ==
  /\ [][ (pc \in FramePcs) => (pc' \in FramePcs \cup { "loop_head" }) ]_vars
  /\ [][ pc = "loop_head"
           => (IF should_close THEN pc' = "delete_program"
                               ELSE pc' = "process_input") ]_vars
  /\ []( (pc \notin FramePcs /\ frame # << >>) => IterationComplete(frame) )
  /\ [][ should_close => should_close' ]_vars
  /\ ( (pc \in FramePcs \cup { "loop_head" } /\ should_close)
         ~> (pc = "exit" /\ delete_program_calls = << shader_program >>) )
  /\ []( (delete_program_calls # << >> /\ shader_program # 0)
           => gl_programs[shader_program].deleted )
  /\ [][ delete_program_calls # << >>
           => (frame' = frame /\ delete_program_calls' = delete_program_calls
               /\ pc' \notin FramePcs) ]_vars

\* the process has returned from main after an iteration in whose input
\* check the exit key was down
C8_Witness ==
  /\ pc = "exit"
  /\ exit_code = 0
  /\ delete_program_calls = << shader_program >>
  /\ shader_program # 0
  /\ frame # << >>
  /\ frame[1].arg = << 1 >>
  /\ IterationComplete(frame)

\* C9: every iteration makes its steps in this order: input check, clear,
\* texture bind, view and projection uniforms, ten draw calls for instances
\* 0..9 each immediately preceded by that instance's model uniform, buffer
\* swap, event poll; none is skipped, repeated or reordered.
C9_FrameOrder ==
  LET steps == StepsOf(frame) IN
  /\ Len(steps) <= Len(ExpectedSteps)
  /\ steps = SubSeq(ExpectedSteps, 1, Len(steps))
  /\ (pc \notin FramePcs /\ frame # << >>) => steps = ExpectedSteps
  /\ \A k \in 1..Len(frame) :
       frame[k].op = "glDrawArrays"
         => (k > 1 /\ frame[k - 1].op = "glUniformMatrix4fv"
                   /\ frame[k - 1].name = "model")

\* an iteration has just been completed
C9_Witness ==
  /\ pc = "loop_head"
  /\ Count(frame, "glDrawArrays") = 10
  /\ frame[Len(frame)].op = "glfwPollEvents"

TextureLoadDone ==
  pc \notin BuildPcs \cup { "use_program", "setup_geometry", "load_texture",
                           "exit" }
  \/ (pc = "exit" /\ sampler_set)

TextureFailureLogs ==
  Cardinality({ k \in 1..Len(log) : log[k] = <<"Failed to load texture">> })

\* C10: a texture load failure is logged exactly once, no image is uploaded,
\* and main still sets the sampler uniform and enters the frame loop with
\* the same program; the process exits only by the loop's should-close
\* check.
C10_TextureFailureNonFatal ==
  /\ []( TextureFailureLogs <= 1 )
  /\ []( TextureLoadDone => (tex_uploads = 0 <=> TextureFailureLogs = 1) )
  /\ []( (TextureLoadDone /\ tex_uploads = 0)
           => /\ use_program_calls = << shader_program >>
              /\ pc # "set_sampler" => sampler_set
              /\ pc \in { "delete_program", "terminate", "exit" }
                   => (should_close /\ IterationComplete(frame)) )
  /\ [][ pc = "load_texture"
           => (pc' = "set_sampler" /\ shader_program' = shader_program) ]_vars
  /\ [][ pc = "set_sampler"
           => (pc' = "loop_head" /\ shader_program' = shader_program) ]_vars
  /\ [][ (pc = "loop_head" /\ frame = << >>) => pc' = "process_input" ]_vars

\* the texture failed to load and a second iteration is about to start
C10_Witness ==
  /\ pc = "loop_head"
  /\ ~should_close
  /\ tex_uploads = 0
  /\ TextureFailureLogs = 1
  /\ IterationComplete(frame)

====
